---- MODULE Spec2Model ----
(***************************************************************************)
(* Model of merge_json_datasets.py: collect_files (File Selector),         *)
(* merge_jsonl (Line Merger) and main (driver).                            *)
(*                                                                         *)
(* Text is modelled as sequences of character codes, a path as the         *)
(* sequence of its components (pathlib's `parts`), and the filesystem as a *)
(* function from the paths of a small universe to entries.                 *)
(***************************************************************************)
EXTENDS Integers, Sequences, FiniteSets, TLC

\* ------------------------------------------------------------------------
\* Characters
\* ------------------------------------------------------------------------
NL == 10
CR == 13
SP == 32
STAR == 42
SLASH == 47

\* str.isspace() for the ASCII range, as used by str.strip() with no argument
IsSpace(c) == c \in {9, 10, 11, 12, 13, 28, 29, 30, 31, 32}

\* ------------------------------------------------------------------------
\* Bounds
\* ------------------------------------------------------------------------
\* longest content enumerated for the fully varied input file of MergeSpec
MaxLen == 3
\* number of successive runs of the tool on the same directory
MaxRuns == 2

\* ------------------------------------------------------------------------
\* Generic sequence helpers
\* ------------------------------------------------------------------------
RECURSIVE SeqsUpTo(_, _)
SeqsUpTo(S, n) ==
    IF n = 0 THEN {<<>>}
    ELSE LET prev == SeqsUpTo(S, n - 1)
         IN prev \cup {Append(s, c) : s \in {p \in prev : Len(p) = n - 1}, c \in S}

Reverse(s) == [i \in 1..Len(s) |-> s[Len(s) + 1 - i]]

\* code-point lexicographic order on strings (Python str.__lt__)
RECURSIVE StrLess(_, _)
StrLess(a, b) ==
    IF b = <<>> THEN FALSE
    ELSE IF a = <<>> THEN TRUE
    ELSE IF a[1] # b[1] THEN a[1] < b[1]
    ELSE StrLess(Tail(a), Tail(b))

\* ------------------------------------------------------------------------
\* Text file reading and line filtering  (merge_jsonl, lines 57-62)
\* ------------------------------------------------------------------------
\* open(..., "r") uses universal newlines: "\r\n" and "\r" are read as "\n"
RECURSIVE Translate(_)
Translate(s) ==
    IF s = <<>> THEN <<>>
    ELSE IF s[1] = CR
         THEN IF Len(s) >= 2 /\ s[2] = NL
              THEN <<NL>> \o Translate(SubSeq(s, 3, Len(s)))
              ELSE <<NL>> \o Translate(Tail(s))
         ELSE <<s[1]>> \o Translate(Tail(s))

\* `for line in infile`: the lines of a text, each keeping its terminator;
\* cur is the line being accumulated
RECURSIVE SplitKeep(_, _)
SplitKeep(s, cur) ==
    IF s = <<>> THEN (IF cur = <<>> THEN <<>> ELSE <<cur>>)
    ELSE IF s[1] = NL THEN <<Append(cur, NL)>> \o SplitKeep(Tail(s), <<>>)
    ELSE SplitKeep(Tail(s), Append(cur, s[1]))

ReadLines(content) == SplitKeep(Translate(content), <<>>)

RECURSIVE LStrip(_)
LStrip(s) == IF s # <<>> /\ IsSpace(s[1]) THEN LStrip(Tail(s)) ELSE s

RECURSIVE RStrip(_)
RStrip(s) ==
    IF s # <<>> /\ IsSpace(s[Len(s)]) THEN RStrip(SubSeq(s, 1, Len(s) - 1)) ELSE s

\* variant: only the end of the line is stripped
Strip_RightOnly(line) == RStrip(line)

\* line.strip()
Strip(line) == RStrip(LStrip(line))

\* ------------------------------------------------------------------------
\* Paths  (pathlib.Path)
\* ------------------------------------------------------------------------
\* str(path): the components joined by "/"
RECURSIVE PathStr(_)
PathStr(p) ==
    IF p = <<>> THEN <<>>
    ELSE IF Len(p) = 1 THEN p[1]
    ELSE p[1] \o <<SLASH>> \o PathStr(Tail(p))

\* Path.__lt__: comparison of the tuples of components, as sorted() uses it
RECURSIVE PathLess(_, _)
PathLess(p, q) ==
    IF q = <<>> THEN FALSE
    ELSE IF p = <<>> THEN TRUE
    ELSE IF p[1] # q[1] THEN StrLess(p[1], q[1])
    ELSE PathLess(Tail(p), Tail(q))

Parent(p) == SubSeq(p, 1, Len(p) - 1)

\* fnmatch of one path component against one pattern component ("*" only)
RECURSIVE Match(_, _)
Match(pat, s) ==
    IF pat = <<>> THEN s = <<>>
    ELSE IF pat[1] = STAR
         THEN Match(Tail(pat), s) \/ (s # <<>> /\ Match(pat, Tail(s)))
         ELSE s # <<>> /\ s[1] = pat[1] /\ Match(Tail(pat), Tail(s))

\* the components of a glob pattern, split at "/"
RECURSIVE SplitPattern(_, _)
SplitPattern(pat, cur) ==
    IF pat = <<>> THEN <<cur>>
    ELSE IF pat[1] = SLASH THEN <<cur>> \o SplitPattern(Tail(pat), <<>>)
    ELSE SplitPattern(Tail(pat), Append(cur, pat[1]))

\* ------------------------------------------------------------------------
\* Filesystem universe
\* ------------------------------------------------------------------------
InDir   == << <<105>> >>                          \* i        (--input-dir)
OutDir  == << <<110>> >>                          \* n
P_r0    == << <<105>>, <<114, 48, 46, 106>> >>    \* i/r0.j
P_r1    == << <<105>>, <<114, 49, 46, 106>> >>    \* i/r1.j
P_e0    == << <<105>>, <<101, 48, 46, 106>> >>    \* i/e0.j
P_rl    == << <<105>>, <<114, 108, 46, 106>> >>   \* i/rl.j   (symlink)
P_d     == << <<105>>, <<100>> >>                 \* i/d
P_dd    == << <<105>>, <<100, 45>> >>             \* i/d-
P_dr    == << <<105>>, <<100>>, <<114, 46, 106>> >>      \* i/d/r.j
P_ddr   == << <<105>>, <<100, 45>>, <<114, 46, 106>> >>  \* i/d-/r.j
O_in_tr == << <<105>>, <<114, 101, 117, 46, 106>> >>   \* i/reu.j
O_in_te == << <<105>>, <<101, 114, 117, 46, 106>> >>   \* i/eru.j
O_out_tr == << <<110>>, <<114, 101, 117, 46, 106>> >>  \* n/reu.j
O_out_te == << <<110>>, <<101, 114, 117, 46, 106>> >>  \* n/eru.j

\* one enumeration order of the universe (os.scandir order is unspecified)
ScanFwd == << O_in_tr, P_rl, P_r1, P_e0, P_r0, P_dr, P_ddr, O_in_te,
              P_d, P_dd, InDir, OutDir, O_out_tr, O_out_te >>

AllPaths == {ScanFwd[i] : i \in 1..Len(ScanFwd)}

PatTrainFlat   == <<42, 114, 42, 46, 106>>        \* "*r*.j"  (cf. "*train*.json")
PatTestFlat    == <<42, 101, 42, 46, 106>>        \* "*e*.j"  (cf. "*test*.json")
PatTrainNested == <<42, 47, 114, 42, 46, 106>>    \* "*/r*.j"

Absent     == [kind |-> "absent", content |-> <<>>, readable |-> TRUE, target |-> <<>>]
Dir        == [kind |-> "dir", content |-> <<>>, readable |-> TRUE, target |-> <<>>]
File(c)    == [kind |-> "file", content |-> c, readable |-> TRUE, target |-> <<>>]
Locked(c)  == [kind |-> "file", content |-> c, readable |-> FALSE, target |-> <<>>]
Link(t)    == [kind |-> "link", content |-> <<>>, readable |-> TRUE, target |-> t]

\* Path.resolve(): follow symbolic links (all paths share the working directory)
RECURSIVE Resolve(_, _)
Resolve(f, p) == IF f[p].kind = "link" THEN Resolve(f, f[p].target) ELSE p

\* Path.exists(), Path.is_dir(), Path.is_file(): all follow symbolic links
Exists(f, p) == f[Resolve(f, p)].kind # "absent"
IsDir(f, p)  == f[Resolve(f, p)].kind = "dir"
IsFile(f, p) == f[Resolve(f, p)].kind = "file"

\* ------------------------------------------------------------------------
\* collect_files  (lines 21-38)
\* ------------------------------------------------------------------------
\* does path p, lying below directory, match the pattern components parts
GlobMatches(f, directory, parts, p) ==
    /\ f[p].kind # "absent"
    /\ Len(p) = Len(directory) + Len(parts)
    /\ SubSeq(p, 1, Len(directory)) = directory
    /\ \A k \in 1..Len(parts) : Match(parts[k], p[Len(directory) + k])
    /\ \A k \in 1..(Len(parts) - 1) : IsDir(f, SubSeq(p, 1, Len(directory) + k))

\* directory.glob(pattern): the matching entries in enumeration order
Glob(f, order, directory, pattern) ==
    LET parts == SplitPattern(pattern, <<>>)
    IN SelectSeq(order, LAMBDA p : GlobMatches(f, directory, parts, p))

\* variant: the comparison is taken the wrong way round
RECURSIVE Insert_Descending(_, _)
Insert_Descending(x, s) ==
    IF s = <<>> THEN <<x>>
    ELSE IF PathLess(Head(s), x) THEN <<x>> \o s
    ELSE <<Head(s)>> \o Insert_Descending(x, Tail(s))

RECURSIVE Insert(_, _)
Insert(x, s) ==
    IF s = <<>> THEN <<x>>
    ELSE IF PathLess(x, Head(s)) THEN <<x>> \o s
    ELSE <<Head(s)>> \o Insert(x, Tail(s))

\* variant: the glob result is used as enumerated
Sorted_None(s) == s

\* sorted(paths)
RECURSIVE Sorted(_)
Sorted(s) == IF s = <<>> THEN <<>> ELSE Insert(Head(s), Sorted(Tail(s)))

\* variant: the outputs are not excluded
collect_files_NoExclude(f, order, directory, pattern, output_names) ==
    SelectSeq(Sorted(Glob(f, order, directory, pattern)), LAMBDA path : IsFile(f, path))

collect_files(f, order, directory, pattern, output_names) ==
    LET excluded == {Resolve(f, output_names[i]) : i \in 1..Len(output_names)}
    IN SelectSeq(Sorted(Glob(f, order, directory, pattern)),
                 LAMBDA path : IsFile(f, path) /\ Resolve(f, path) \notin excluded)

\* ------------------------------------------------------------------------
\* State
\* ------------------------------------------------------------------------
VARIABLES
    fs,           \* the filesystem: path -> entry
    scan,         \* enumeration order of directory listings: "fwd" or "rev"
    cfg,          \* parsed arguments (parse_args)
    pc,           \* position of the process
    run,          \* number of the current run of the tool
    train_files, test_files,     \* main: the two selections
    train_count, test_count,     \* main: the two returned counts (-1: unset)
    m_files, m_out,              \* merge_jsonl: arguments
    m_idx,                       \* merge_jsonl: index of the input file in progress
    m_lines,                     \* merge_jsonl: lines of that file not yet iterated
    m_written,                   \* merge_jsonl: lines_written
    m_ret,                       \* merge_jsonl: the caller ("train", "test", "direct")
    result,                      \* value returned to a direct caller of merge_jsonl
    stdout,                      \* printed summary lines
    exit_code,                   \* -1 while running
    diag,                        \* message of the terminating exception
    fs0,          \* history: the filesystem when the current run started
    log,          \* history: stage events of the current run
    run1          \* history: contents of the two outputs after the first run

vars == << fs, scan, cfg, pc, run, train_files, test_files, train_count, test_count,
           m_files, m_out, m_idx, m_lines, m_written, m_ret, result, stdout,
           exit_code, diag, fs0, log, run1 >>

ScanOrder == IF scan = "fwd" THEN ScanFwd ELSE Reverse(ScanFwd)

\* ------------------------------------------------------------------------
\* Initial states
\* ------------------------------------------------------------------------
C_r0    == <<32, 97, 32, 10, 10, 98>>             \* " a \n\nb"
C_blank == <<10, 32, 10>>                         \* "\n \n"
C_r1    == <<99, 13, 10, 9, 99, 32, 99, 13>>      \* "c\r\n\tc c\r"
C_e0    == <<101, 10>>                            \* "e\n"
C_dr    == <<112, 10>>                            \* "p\n"
C_ddr   == <<113, 10>>                            \* "q\n"
C_old   == <<122, 10, 122, 10, 122, 10, 122, 10>> \* "z\nz\nz\nz\n"

EmptyFS == [p \in AllPaths |-> Absent]

IdleLocals ==
    /\ train_files = <<>> /\ test_files = <<>>
    /\ train_count = -1 /\ test_count = -1
    /\ m_idx = 0 /\ m_lines = <<>> /\ m_written = 0 /\ m_ret = "none"
    /\ result = -1 /\ stdout = <<>> /\ exit_code = -1 /\ diag = <<>>
    /\ log = <<>> /\ run1 = <<>> /\ run = 1

\* the tool is started on a directory holding r0.j, r1.j, e0.j, the two
\* subdirectories d and d- and possibly the outputs of an earlier run; the
\* two output paths name different files, inside the directory (where each
\* matches both patterns) or in a directory of their own
InitDir ==
    \E r0 \in {Absent, File(C_r0), File(C_blank), Locked(C_r0)},
       r1 \in {Absent, File(C_r1), Locked(C_r1), Dir},
       e0 \in {Absent, File(C_e0), Locked(C_e0)},
       otr \in {Absent, File(C_old), Dir},
       ote \in {Absent, File(C_old)},
       inside \in BOOLEAN, linked \in BOOLEAN, outd \in {"absent", "dir", "file"},
       tp \in {PatTrainFlat, PatTrainNested} :
        /\ inside => outd = "absent"
        /\ ~inside => ~linked
        /\ (~inside /\ outd # "dir") => (otr = Absent /\ ote = Absent)
        /\ fs = [p \in AllPaths |->
                   CASE p = InDir -> Dir
                     [] p = P_r0 -> r0
                     [] p = P_r1 -> r1
                     [] p = P_e0 -> e0
                     [] p = P_d -> Dir
                     [] p = P_dd -> Dir
                     [] p = P_dr -> File(C_dr)
                     [] p = P_ddr -> File(C_ddr)
                     [] p = P_rl -> IF linked THEN Link(O_in_tr) ELSE Absent
                     [] p = O_in_tr -> IF inside THEN otr ELSE Absent
                     [] p = O_in_te -> IF inside THEN ote ELSE Absent
                     [] p = OutDir -> IF outd = "dir" THEN Dir
                                      ELSE IF outd = "file" THEN File(<<>>) ELSE Absent
                     [] p = O_out_tr -> IF inside THEN Absent ELSE otr
                     [] p = O_out_te -> IF inside THEN Absent ELSE ote]
        /\ cfg = [input_dir |-> InDir, train_pattern |-> tp, test_pattern |-> PatTestFlat,
                  output_train |-> IF inside THEN O_in_tr ELSE O_out_tr,
                  output_test |-> IF inside THEN O_in_te ELSE O_out_te]

\* the tool is started with an --input-dir that is missing or is a file
InitNoDir ==
    \E ind \in {Absent, File(C_e0)}, otr \in {Absent, File(C_old)} :
        /\ fs = [EmptyFS EXCEPT ![InDir] = ind,
                                ![OutDir] = IF otr = Absent THEN Absent ELSE Dir,
                                ![O_out_tr] = otr]
        /\ cfg = [input_dir |-> InDir, train_pattern |-> PatTrainFlat,
                  test_pattern |-> PatTestFlat,
                  output_train |-> O_out_tr, output_test |-> O_out_te]

Init ==
    /\ InitDir \/ InitNoDir
    /\ scan \in {"fwd", "rev"}
    /\ pc = "validate"
    /\ m_files = <<>> /\ m_out = <<>>
    /\ fs0 = fs
    /\ IdleLocals

\* ------------------------------------------------------------------------
\* main  (lines 100-120)
\* ------------------------------------------------------------------------
MergeVars == << m_files, m_out, m_idx, m_lines, m_written, m_ret, result >>
Selections == << train_files, test_files >>
Counts == << train_count, test_count >>
Env == << scan, cfg, run, fs0, run1 >>

\* raise SystemExit(message): the message goes to stderr, the status is 1
SystemExit(message) ==
    /\ pc' = "exit"
    /\ exit_code' = 1
    /\ diag' = message

\* variant: only the existence of the input directory is tested
ValidateDir_ExistsOnly ==
    /\ pc = "validate"
    /\ IF ~Exists(fs, cfg.input_dir)
       THEN /\ SystemExit(<<"Input directory not found", cfg.input_dir>>)
            /\ log' = Append(log, <<"validate", "fail">>)
       ELSE /\ pc' = "select_train"
            /\ log' = Append(log, <<"validate", "ok">>)
            /\ UNCHANGED << exit_code, diag >>
    /\ UNCHANGED << fs, Env, Selections, Counts, MergeVars, stdout >>

\* lines 104-105
ValidateDir ==
    /\ pc = "validate"
    /\ IF ~Exists(fs, cfg.input_dir) \/ ~IsDir(fs, cfg.input_dir)
       THEN /\ SystemExit(<<"Input directory not found", cfg.input_dir>>)
            /\ log' = Append(log, <<"validate", "fail">>)
       ELSE /\ pc' = "select_train"
            /\ log' = Append(log, <<"validate", "ok">>)
            /\ UNCHANGED << exit_code, diag >>
    /\ UNCHANGED << fs, Env, Selections, Counts, MergeVars, stdout >>

\* lines 107-108
SelectTrain ==
    /\ pc = "select_train"
    /\ train_files' = collect_files(fs, ScanOrder, cfg.input_dir, cfg.train_pattern,
                                    <<cfg.output_train, cfg.output_test>>)
    /\ pc' = "select_test"
    /\ log' = Append(log, <<"select_train", "ok">>)
    /\ UNCHANGED << fs, Env, test_files, Counts, MergeVars, stdout, exit_code, diag >>

\* line 109
SelectTest ==
    /\ pc = "select_test"
    /\ test_files' = collect_files(fs, ScanOrder, cfg.input_dir, cfg.test_pattern,
                                   <<cfg.output_train, cfg.output_test>>)
    /\ pc' = "check"
    /\ log' = Append(log, <<"select_test", "ok">>)
    /\ UNCHANGED << fs, Env, train_files, Counts, MergeVars, stdout, exit_code, diag >>

\* variant: only the train selection is tested
CheckSelections_TrainOnly ==
    /\ pc = "check"
    /\ IF train_files = <<>>
       THEN /\ SystemExit(<<"No train files matched pattern", cfg.train_pattern,
                            cfg.input_dir>>)
            /\ log' = Append(log, <<"check", "fail">>)
       ELSE /\ pc' = "call_train"
            /\ log' = Append(log, <<"check", "ok">>)
            /\ UNCHANGED << exit_code, diag >>
    /\ UNCHANGED << fs, Env, Selections, Counts, MergeVars, stdout >>

\* lines 111-114
CheckSelections ==
    /\ pc = "check"
    /\ IF train_files = <<>>
       THEN /\ SystemExit(<<"No train files matched pattern", cfg.train_pattern,
                            cfg.input_dir>>)
            /\ log' = Append(log, <<"check", "fail">>)
       ELSE IF test_files = <<>>
       THEN /\ SystemExit(<<"No test files matched pattern", cfg.test_pattern,
                            cfg.input_dir>>)
            /\ log' = Append(log, <<"check", "fail">>)
       ELSE /\ pc' = "call_train"
            /\ log' = Append(log, <<"check", "ok">>)
            /\ UNCHANGED << exit_code, diag >>
    /\ UNCHANGED << fs, Env, Selections, Counts, MergeVars, stdout >>

\* ------------------------------------------------------------------------
\* merge_jsonl  (lines 41-64)
\* ------------------------------------------------------------------------
\* the arguments of the call about to be made
Site      == CASE pc = "call_train" -> "train"
               [] pc = "call_test" -> "test"
               [] OTHER -> "direct"
CallFiles == CASE pc = "call_train" -> train_files
               [] pc = "call_test" -> test_files
               [] OTHER -> m_files
CallOut   == CASE pc = "call_train" -> cfg.output_train
               [] pc = "call_test" -> cfg.output_test
               [] OTHER -> m_out

Ancestors(p) == {SubSeq(p, 1, k) : k \in 1..(Len(p) - 1)}

\* output_path.parent.mkdir(parents=True, exist_ok=True) raises when the
\* parent or one of its ancestors is a file
MkdirFails(f, p) == \E q \in Ancestors(p) : f[q].kind = "file"
Mkdir(f, p) ==
    [x \in AllPaths |-> IF x \in Ancestors(p) /\ f[x].kind = "absent" THEN Dir ELSE f[x]]

\* variant: the output is opened for appending
OpenWrite_Append(f, p) ==
    IF f[Resolve(f, p)].kind = "file" THEN f ELSE [f EXCEPT ![Resolve(f, p)] = File(<<>>)]

\* output_path.open("w") raises when the path is a directory; otherwise it
\* creates the file or truncates it
OpenWriteFails(f, p) == IsDir(f, p)
OpenWrite(f, p) == [f EXCEPT ![Resolve(f, p)] = File(<<>>)]

\* file_path.open("r") raises unless the path is a readable file
CanOpen(f, p) == IsFile(f, p) /\ f[Resolve(f, p)].readable

\* outfile.write(text)
Write(f, p, text) ==
    [f EXCEPT ![Resolve(f, p)].content = f[Resolve(f, p)].content \o text]

\* variant: main catches the error of a merge and goes on
Raise_Swallowed(site, err, path) ==
    /\ diag' = <<err, path>>
    /\ pc' = CASE site = "train" -> "call_test"
               [] site = "test" -> "summary"
               [] OTHER -> "raised"
    /\ exit_code' = exit_code
    /\ log' = log \o (IF pc \in {"call_train", "call_test", "call_direct"}
                      THEN << <<"merge_" \o site, "begin">> >> ELSE << >>)
                  \o << <<"merge_" \o site, "fail">> >>

\* an OSError leaves merge_jsonl; in main nothing catches it
Raise(site, err, path) ==
    /\ diag' = <<err, path>>
    /\ pc' = IF site = "direct" THEN "raised" ELSE "exit"
    /\ exit_code' = IF site = "direct" THEN exit_code ELSE 1
    /\ log' = log \o (IF pc \in {"call_train", "call_test", "call_direct"}
                      THEN << <<"merge_" \o site, "begin">> >> ELSE << >>)
                  \o << <<"merge_" \o site, "fail">> >>

\* lines 53-55: mkdir, open for writing, lines_written = 0
MergeBeginOK ==
    /\ pc \in {"call_train", "call_test", "call_direct"}
    /\ ~MkdirFails(fs, CallOut)
    /\ ~OpenWriteFails(Mkdir(fs, CallOut), CallOut)
    /\ fs' = OpenWrite(Mkdir(fs, CallOut), CallOut)
    /\ m_files' = CallFiles /\ m_out' = CallOut /\ m_ret' = Site
    /\ m_idx' = 0 /\ m_lines' = <<>> /\ m_written' = 0
    /\ pc' = "merging"
    /\ log' = Append(log, <<"merge_" \o Site, "begin">>)
    /\ UNCHANGED << Env, Selections, Counts, result, stdout, exit_code, diag >>

MergeBeginFail ==
    /\ pc \in {"call_train", "call_test", "call_direct"}
    /\ IF MkdirFails(fs, CallOut)
       THEN /\ fs' = fs
            /\ Raise(Site, "FileExistsError", Parent(CallOut))
       ELSE /\ OpenWriteFails(Mkdir(fs, CallOut), CallOut)
            /\ fs' = Mkdir(fs, CallOut)
            /\ Raise(Site, "IsADirectoryError", CallOut)
    /\ m_files' = CallFiles /\ m_out' = CallOut /\ m_ret' = Site
    /\ UNCHANGED << Env, Selections, Counts, m_idx, m_lines, m_written, result, stdout >>

\* lines 56-57: the next file of the list is opened and its lines are iterated
OpenInputOK ==
    /\ pc = "merging" /\ m_lines = <<>> /\ m_idx < Len(m_files)
    /\ CanOpen(fs, m_files[m_idx + 1])
    /\ m_idx' = m_idx + 1
    /\ m_lines' = ReadLines(fs[Resolve(fs, m_files[m_idx + 1])].content)
    /\ UNCHANGED << fs, Env, Selections, Counts, m_files, m_out, m_written, m_ret,
                    result, stdout, exit_code, diag, pc, log >>

\* variant: the partial output is discarded when an input cannot be opened
OpenInputFail_Rollback ==
    /\ pc = "merging" /\ m_lines = <<>> /\ m_idx < Len(m_files)
    /\ ~CanOpen(fs, m_files[m_idx + 1])
    /\ Raise(m_ret, "OSError", m_files[m_idx + 1])
    /\ fs' = OpenWrite(fs, m_out)
    /\ UNCHANGED << Env, Selections, Counts, MergeVars, stdout >>

\* line 57 raising: the with statement closes the output, what was written stays
OpenInputFail ==
    /\ pc = "merging" /\ m_lines = <<>> /\ m_idx < Len(m_files)
    /\ ~CanOpen(fs, m_files[m_idx + 1])
    /\ Raise(m_ret, "OSError", m_files[m_idx + 1])
    /\ UNCHANGED << fs, Env, Selections, Counts, MergeVars, stdout >>

\* lines 58-63, a line with content
WriteLine ==
    /\ pc = "merging" /\ m_lines # <<>>
    /\ LET stripped == Strip(Head(m_lines))
       IN /\ stripped # <<>>
          /\ fs' = Write(fs, m_out, stripped \o <<NL>>)
          /\ m_written' = m_written + 1
    /\ m_lines' = Tail(m_lines)
    /\ UNCHANGED << Env, Selections, Counts, m_files, m_out, m_idx, m_ret,
                    result, stdout, exit_code, diag, pc, log >>

\* variant: a blank line is skipped but counted
SkipBlank_Counted ==
    /\ pc = "merging" /\ m_lines # <<>>
    /\ Strip(Head(m_lines)) = <<>>
    /\ m_lines' = Tail(m_lines)
    /\ m_written' = m_written + 1
    /\ UNCHANGED << fs, Env, Selections, Counts, m_files, m_out, m_idx,
                    m_ret, result, stdout, exit_code, diag, pc, log >>

\* lines 58-61, a blank line
SkipBlank ==
    /\ pc = "merging" /\ m_lines # <<>>
    /\ Strip(Head(m_lines)) = <<>>
    /\ m_lines' = Tail(m_lines)
    /\ UNCHANGED << fs, Env, Selections, Counts, m_files, m_out, m_idx, m_written,
                    m_ret, result, stdout, exit_code, diag, pc, log >>

\* line 64, and the assignment of lines 116-117 in main
MergeReturn ==
    /\ pc = "merging" /\ m_lines = <<>> /\ m_idx = Len(m_files)
    /\ train_count' = IF m_ret = "train" THEN m_written ELSE train_count
    /\ test_count' = IF m_ret = "test" THEN m_written ELSE test_count
    /\ result' = IF m_ret = "direct" THEN m_written ELSE result
    /\ pc' = CASE m_ret = "train" -> "call_test"
               [] m_ret = "test" -> "summary"
               [] OTHER -> "returned"
    /\ log' = Append(log, <<"merge_" \o m_ret, "ok">>)
    /\ UNCHANGED << fs, Env, Selections, m_files, m_out, m_idx, m_lines, m_written,
                    m_ret, stdout, exit_code, diag >>

\* lines 119-120, then the process ends with status 0
Summary ==
    /\ pc = "summary"
    /\ stdout' = << [n |-> Len(train_files), split |-> "train",
                     path |-> cfg.output_train, m |-> train_count],
                    [n |-> Len(test_files), split |-> "test",
                     path |-> cfg.output_test, m |-> test_count] >>
    /\ pc' = "done"
    /\ exit_code' = 0
    /\ log' = Append(log, <<"summary", "ok">>)
    /\ run1' = IF run = 1
               THEN << fs[cfg.output_train].content, fs[cfg.output_test].content >>
               ELSE run1
    /\ UNCHANGED << fs, scan, cfg, run, fs0, Selections, Counts, MergeVars, diag >>

\* the tool is run again with the same arguments on the directory as it now is
Rerun ==
    /\ pc = "done" /\ run < MaxRuns
    /\ run' = run + 1
    /\ pc' = "validate"
    /\ fs0' = fs
    /\ train_files' = <<>> /\ test_files' = <<>>
    /\ train_count' = -1 /\ test_count' = -1
    /\ m_files' = <<>> /\ m_out' = <<>> /\ m_ret' = "none"
    /\ m_idx' = 0 /\ m_lines' = <<>> /\ m_written' = 0
    /\ stdout' = <<>> /\ exit_code' = -1 /\ diag' = <<>> /\ log' = <<>>
    /\ UNCHANGED << fs, scan, cfg, result, run1 >>

Next ==
    \/ ValidateDir
    \/ SelectTrain
    \/ SelectTest
    \/ CheckSelections
    \/ MergeBeginOK
    \/ MergeBeginFail
    \/ OpenInputOK
    \/ OpenInputFail
    \/ WriteLine
    \/ SkipBlank
    \/ MergeReturn
    \/ Summary
    \/ Rerun

Spec == Init /\ [][Next]_vars

\* ------------------------------------------------------------------------
\* merge_jsonl called on its own
\* ------------------------------------------------------------------------
\* every text of at most MaxLen characters over a, b, space, "\n", "\r"
Contents == SeqsUpTo({97, 98, SP, NL, CR}, MaxLen)

InitMerge ==
    /\ \E r0 \in {Absent, Locked(C_r0)} \cup {File(c) : c \in Contents},
          r1 \in {Absent, File(C_r1)},
          otr \in {Absent, File(C_old), Dir} :
            fs = [EmptyFS EXCEPT ![InDir] = Dir, ![P_r0] = r0, ![P_r1] = r1,
                                 ![OutDir] = IF otr = Absent THEN Absent ELSE Dir,
                                 ![O_out_tr] = otr]
    /\ m_files \in {<<>>, <<P_r0>>, <<P_r0, P_r1>>, <<P_r1, P_r0>>, <<P_r0, P_r0>>}
    /\ m_out = O_out_tr
    /\ cfg = [input_dir |-> InDir, train_pattern |-> PatTrainFlat,
              test_pattern |-> PatTestFlat,
              output_train |-> O_out_tr, output_test |-> O_out_te]
    /\ scan = "fwd"
    /\ pc = "call_direct"
    /\ fs0 = fs
    /\ IdleLocals

NextMerge ==
    \/ MergeBeginOK
    \/ MergeBeginFail
    \/ OpenInputOK
    \/ OpenInputFail
    \/ WriteLine
    \/ SkipBlank
    \/ MergeReturn

MergeSpec == InitMerge /\ [][NextMerge]_vars

\* ------------------------------------------------------------------------
\* Vocabulary of the properties
\* ------------------------------------------------------------------------
Range(s) == {s[i] : i \in 1..Len(s)}

IsBlankText(t) == \A i \in 1..Len(t) : IsSpace(t[i])

\* t is l without its leading and trailing whitespace
IsTrimOf(t, l) ==
    \E i \in 0..Len(l) :
        /\ i + Len(t) <= Len(l)
        /\ SubSeq(l, i + 1, i + Len(t)) = t
        /\ IsBlankText(SubSeq(l, 1, i))
        /\ IsBlankText(SubSeq(l, i + Len(t) + 1, Len(l)))
        /\ t # <<>> => (~IsSpace(t[1]) /\ ~IsSpace(t[Len(t)]))

\* the text a list of lines contributes: each non-blank line, trimmed, then "\n"
RECURSIVE FilteredText(_)
FilteredText(lines) ==
    IF lines = <<>> THEN <<>>
    ELSE (IF IsBlankText(Head(lines)) THEN <<>> ELSE Strip(Head(lines)) \o <<NL>>)
         \o FilteredText(Tail(lines))

\* the concatenation, file after file, of what the files of a list contribute
RECURSIVE ExpectedMerge(_, _)
ExpectedMerge(f, files) ==
    IF files = <<>> THEN <<>>
    ELSE FilteredText(ReadLines(f[Resolve(f, Head(files))].content))
         \o ExpectedMerge(f, Tail(files))

RECURSIVE CountNonBlank(_, _)
CountNonBlank(f, files) ==
    IF files = <<>> THEN 0
    ELSE LET ls == ReadLines(f[Resolve(f, Head(files))].content)
         IN Cardinality({i \in 1..Len(ls) : ~IsBlankText(ls[i])})
            + CountNonBlank(f, Tail(files))

\* the lines of a file as written on disk, terminators kept
DiskLines(content) == SplitKeep(content, <<>>)

AscendingByPath(s) == \A i, j \in 1..Len(s) : i < j => PathLess(s[i], s[j])
AscendingByPathString(s) ==
    \A i, j \in 1..Len(s) : i < j => StrLess(PathStr(s[i]), PathStr(s[j]))

Happened(ev) == ev \in Range(log)
OutTrain == fs[cfg.output_train]
OutTest  == fs[cfg.output_test]

\* ------------------------------------------------------------------------
\* Properties
\* ------------------------------------------------------------------------

\* C1 (order preservation): after a successful run each output is, character
\* for character, the concatenation of the trimmed non-blank lines of the
\* files selected for its split, the files in ascending path order and the
\* lines of each file in their own order.
OrderPreservation ==
    pc = "done" =>
        /\ AscendingByPath(train_files)
        /\ AscendingByPath(test_files)
        /\ OutTrain.kind = "file"
        /\ OutTrain.content = ExpectedMerge(fs0, train_files)
        /\ OutTest.kind = "file"
        /\ OutTest.content = ExpectedMerge(fs0, test_files)

OrderPreservationWitness ==
    /\ pc = "done"
    /\ train_files = <<P_r0, P_r1>>
    /\ fs0[P_r0].content = C_r0
    /\ OutTrain.content = <<97, 10, 98, 10, 99, 10, 99, 32, 99, 10>>
    /\ scan = "fwd"

\* C2 (empty selection): once both selections are made and one of them is
\* empty, the run has ended with a non-zero status and a message naming the
\* unmatched pattern and the directory, merge_jsonl was called for neither
\* split and no file was created or changed.
SelectionsChecked ==
    /\ Happened(<<"select_test", "ok">>)
    /\ pc # "check"

EmptySelectionAllOrNothing ==
    (SelectionsChecked /\ (train_files = <<>> \/ test_files = <<>>)) =>
        /\ pc = "exit"
        /\ exit_code # 0 /\ exit_code # -1
        /\ diag = IF train_files = <<>>
                  THEN <<"No train files matched pattern", cfg.train_pattern,
                         cfg.input_dir>>
                  ELSE <<"No test files matched pattern", cfg.test_pattern,
                         cfg.input_dir>>
        /\ fs = fs0
        /\ \A ev \in Range(log) : ev[1] \notin {"merge_train", "merge_test", "summary"}
        /\ stdout = <<>>

EmptySelectionWitness ==
    /\ pc = "exit"
    /\ train_files # <<>>
    /\ test_files = <<>>
    /\ Happened(<<"check", "fail">>)
    /\ fs0[cfg.output_train].content = C_old

\* C3 (self-exclusion): a second successful run on the directory that now
\* holds the outputs of the first leaves in each output the content the
\* first run left there, and no selection ever contains a path that resolves
\* to one of the two output paths.
SelfExclusion ==
    /\ (run >= 2 /\ pc = "done") => << OutTrain.content, OutTest.content >> = run1
    /\ \A p \in Range(train_files) \cup Range(test_files) :
          Resolve(fs, p) \notin {Resolve(fs, cfg.output_train),
                                  Resolve(fs, cfg.output_test)}

SelfExclusionWitness ==
    /\ run = 2 /\ pc = "done"
    /\ cfg.output_train = O_in_tr
    /\ fs[P_rl].kind = "link"
    /\ run1[1] # <<>> /\ run1[2] # <<>>

\* C4 (count accuracy): the count merge_jsonl returns, which the summary
\* line of the split reports, is the number of non-blank lines of the files
\* selected for the split and the number of lines of the written output.
CountAccuracy ==
    pc = "done" =>
        /\ Len(stdout) = 2
        /\ stdout[1].m = train_count /\ stdout[2].m = test_count
        /\ train_count = CountNonBlank(fs0, train_files)
        /\ train_count = Len(DiskLines(OutTrain.content))
        /\ test_count = CountNonBlank(fs0, test_files)
        /\ test_count = Len(DiskLines(OutTest.content))
        /\ stdout[1].n = Len(train_files) /\ stdout[2].n = Len(test_files)

CountAccuracyWitness ==
    /\ pc = "done"
    /\ train_files = <<P_r0, P_r1>>
    /\ fs0[P_r0].content = C_blank
    /\ train_count = 2

\* C5 (blank-line elimination): while merge_jsonl runs and after it, every
\* line of the output is a non-empty text without leading or trailing
\* whitespace followed by one "\n", and every write appends the trimmed
\* content of one line of the input file in progress followed by "\n".
WellFormedLine(line) ==
    /\ Len(line) >= 2
    /\ line[Len(line)] = NL
    /\ ~IsSpace(line[1])
    /\ ~IsSpace(line[Len(line) - 1])

WellFormedOutput(content) ==
    \A k \in 1..Len(DiskLines(content)) : WellFormedLine(DiskLines(content)[k])

WritesOneTrimmedLine ==
    (pc = "merging" /\ fs' # fs) =>
        LET old == fs[m_out].content
            new == fs'[m_out].content
            lines == ReadLines(fs[Resolve(fs, m_files[m_idx])].content)
        IN /\ Len(new) >= Len(old) + 2
           /\ SubSeq(new, 1, Len(old)) = old
           /\ new[Len(new)] = NL
           /\ \E k \in 1..Len(lines) :
                 IsTrimOf(SubSeq(new, Len(old) + 1, Len(new) - 1), lines[k])
           /\ \A p \in AllPaths \ {m_out} : fs'[p] = fs[p]

BlankLineElimination ==
    /\ []((pc \in {"merging", "returned", "raised"} /\ fs[m_out].kind = "file")
            => WellFormedOutput(fs[m_out].content))
    /\ [][WritesOneTrimmedLine]_vars

BlankLineEliminationWitness ==
    /\ pc = "returned"
    /\ m_files = <<P_r0, P_r1>>
    /\ fs0[P_r0].content = <<NL, SP, 97>>
    /\ m_written = 3

\* C6 (overwrite): after merge_jsonl returns, the output holds exactly what
\* the current input files contribute and nothing of what it held before.
Overwrite ==
    pc = "returned" =>
        /\ fs[m_out].kind = "file"
        /\ fs[m_out].content = ExpectedMerge(fs0, m_files)
        /\ 122 \notin Range(fs[m_out].content)

OverwriteWitness ==
    /\ pc = "returned"
    /\ fs0[m_out].content = C_old
    /\ m_written < Len(DiskLines(C_old))
    /\ m_written > 0

\* C7 (input-file failure): when an input file cannot be opened merge_jsonl
\* raises at that file without returning a count, reads no later file, and
\* leaves in the output the lines of the files before it, the prior
\* content being gone; it never gets past a file it cannot open.
InputFailure ==
    /\ (pc = "raised" /\ diag[1] = "OSError") =>
          /\ result = -1
          /\ m_lines = <<>>
          /\ m_idx < Len(m_files)
          /\ ~CanOpen(fs0, m_files[m_idx + 1])
          /\ diag[2] = m_files[m_idx + 1]
          /\ fs[m_out].kind = "file"
          /\ fs[m_out].content = ExpectedMerge(fs0, SubSeq(m_files, 1, m_idx))
    /\ pc \in {"merging", "returned"} =>
          \A k \in 1..m_idx : CanOpen(fs0, m_files[k])
    /\ pc = "returned" => m_idx = Len(m_files)

InputFailureWitness ==
    /\ pc = "raised" /\ diag[1] = "OSError"
    /\ m_idx = 1
    /\ fs[m_out].content = ExpectedMerge(fs0, <<P_r1>>)
    /\ fs0[m_out].content = C_old

\* C8 (invalid input directory): when the input directory is missing or is
\* not a directory, the run ends at the validation with a non-zero status
\* and a message naming the path; no selection is made and no file or
\* directory is created or changed.
InvalidInputDir ==
    (~IsDir(fs0, cfg.input_dir) /\ pc # "validate") =>
        /\ pc = "exit"
        /\ exit_code # 0 /\ exit_code # -1
        /\ diag = <<"Input directory not found", cfg.input_dir>>
        /\ log = << <<"validate", "fail">> >>
        /\ train_files = <<>> /\ test_files = <<>>
        /\ fs = fs0
        /\ stdout = <<>>

InvalidInputDirWitness ==
    /\ pc = "exit"
    /\ fs0[cfg.input_dir].kind = "file"
    /\ fs0[cfg.output_train].content = C_old

\* C9 (file selector result): the set the selector is specified to return
Selected(f, directory, pattern, outs) ==
    {p \in AllPaths :
        /\ GlobMatches(f, directory, SplitPattern(pattern, <<>>), p)
        /\ IsFile(f, p)
        /\ Resolve(f, p) \notin {Resolve(f, o) : o \in outs}}

SelectedTrain ==
    Selected(fs0, cfg.input_dir, cfg.train_pattern, {cfg.output_train, cfg.output_test})
SelectedTest ==
    Selected(fs0, cfg.input_dir, cfg.test_pattern, {cfg.output_train, cfg.output_test})

SameParent(s) == \A i, j \in 1..Len(s) : Parent(s[i]) = Parent(s[j])

\* C9 as stated: each selection holds exactly the matching regular files
\* whose resolved path is not a resolved output path, in ascending order of
\* their path strings.
FileSelectorByPathString ==
    /\ Happened(<<"select_train", "ok">>) =>
          /\ Range(train_files) = SelectedTrain
          /\ Len(train_files) = Cardinality(SelectedTrain)
          /\ AscendingByPathString(train_files)
    /\ Happened(<<"select_test", "ok">>) =>
          /\ Range(test_files) = SelectedTest
          /\ Len(test_files) = Cardinality(SelectedTest)
          /\ AscendingByPathString(test_files)

\* C9 as amended: each selection holds exactly the matching regular files
\* whose resolved path is not a resolved output path, in ascending order of
\* the paths compared component by component, whatever the enumeration
\* order; that is the order of the path strings when all of them lie in one
\* directory.
FileSelectorResult ==
    /\ Happened(<<"select_train", "ok">>) =>
          /\ Range(train_files) = SelectedTrain
          /\ Len(train_files) = Cardinality(SelectedTrain)
          /\ AscendingByPath(train_files)
          /\ SameParent(train_files) => AscendingByPathString(train_files)
    /\ Happened(<<"select_test", "ok">>) =>
          /\ Range(test_files) = SelectedTest
          /\ Len(test_files) = Cardinality(SelectedTest)
          /\ AscendingByPath(test_files)
          /\ SameParent(test_files) => AscendingByPathString(test_files)

FileSelectorResultWitness ==
    /\ Happened(<<"select_test", "ok">>)
    /\ train_files = <<P_r0>>
    /\ fs0[P_r1].kind = "dir"
    /\ fs0[P_rl].kind = "link"
    /\ fs0[O_in_tr].kind = "file"
    /\ scan = "rev"

\* C10 (fail-stop stage order): the stage events of a run form a prefix of
\* validation, train selection, test selection, train merge, test merge,
\* summary, or such a prefix ended by the failure of the stage reached;
\* after a failure nothing happens any more, a failed train merge leaves
\* the test output as it was, and the two summary lines exist only once
\* both merges have completed.
Canonical ==
    << <<"validate", "ok">>, <<"select_train", "ok">>, <<"select_test", "ok">>,
       <<"check", "ok">>, <<"merge_train", "begin">>, <<"merge_train", "ok">>,
       <<"merge_test", "begin">>, <<"merge_test", "ok">>, <<"summary", "ok">> >>

FailedLogs ==
    { << <<"validate", "fail">> >>,
      SubSeq(Canonical, 1, 3) \o << <<"check", "fail">> >>,
      SubSeq(Canonical, 1, 5) \o << <<"merge_train", "fail">> >>,
      SubSeq(Canonical, 1, 7) \o << <<"merge_test", "fail">> >> }

IsPrefix(a, b) == Len(a) <= Len(b) /\ SubSeq(b, 1, Len(a)) = a

StageOrderInv ==
    /\ IsPrefix(log, Canonical) \/ log \in FailedLogs
    /\ log \in FailedLogs => (pc = "exit" /\ exit_code = 1 /\ stdout = <<>>)
    /\ Happened(<<"merge_train", "fail">>) => OutTest = fs0[cfg.output_test]
    /\ ~Happened(<<"merge_test", "begin">>) => OutTest = fs0[cfg.output_test]
    /\ stdout # <<>> =>
          /\ Len(stdout) = 2
          /\ Happened(<<"merge_train", "ok">>)
          /\ Happened(<<"merge_test", "ok">>)
    /\ pc = "done" => (stdout # <<>> /\ exit_code = 0)

NothingAfterFailure == log \in FailedLogs => UNCHANGED vars

FailStopStageOrder ==
    /\ []StageOrderInv
    /\ [][NothingAfterFailure]_vars

FailStopWitness ==
    /\ pc = "exit"
    /\ Happened(<<"merge_train", "fail">>)
    /\ m_idx = 1
    /\ OutTrain.content # fs0[cfg.output_train].content
    /\ fs0[cfg.output_test].content = C_old

====
